---- MODULE Spec2Model ----
(***************************************************************************)
(* Model of the per-function opcode-to-AST pass of the hlbc decompiler     *)
(* (src/src/decompiler/mod.rs, decompile_function).                        *)
(*                                                                         *)
(* The function under decompilation (its opcode vector, debug names and    *)
(* formal arguments) is chosen in Init; one action models one arm of the   *)
(* `match o` of the pass together with the scopes.advance() that follows   *)
(* every opcode.  The scope stack (mod scopes) is not part of the source   *)
(* tree at hand and is modelled from its documented contract.              *)
(***************************************************************************)
EXTENDS Integers, Sequences, FiniteSets, TLC

VARIABLES
    ops,        \* f.ops: the opcode vector (with the debug name of each index)
    fargs,      \* names of the formal arguments ("" = unnamed)
    i,          \* index of the opcode the for loop handles next (0-based)
    cursor,     \* the scope stack's instruction cursor
    scopes,     \* the scope stack; scopes[1] is the function body
    reg_state,  \* register -> expression (a function on the bound registers)
    expr_ctx,   \* idiom context stack (ExprCtx)
    seen,       \* variable names already declared
    status,     \* "run", "done" (statements returned) or "abort" (panic)
    reason,     \* panic message when status = "abort"
    result,     \* the returned Vec<Statement> when status = "done"
    log,        \* history: every statement pushed by an opcode arm, in order
    mid,        \* history: the scope stack after the last arm, before advance
    lastop,     \* history: index of the opcode handled by the last step
    yield,      \* history: Constructor expressions produced per New index
    code,       \* the bytecode module: function index -> opcode vector
    frames,     \* the suspended invocations of decompile_function, outermost first
    ret,        \* the statements a nested invocation has just returned
    vals        \* run-time values of the named registers (for evaluating conditions)

vars == <<ops, fargs, i, cursor, scopes, reg_state, expr_ctx, seen, status,
          reason, result, log, mid, lastop, yield, code, frames, ret, vals>>

-----------------------------------------------------------------------------
(* Bounds of the model *)

\* longest opcode vector of the control-flow specification
MaxLen == 4
\* longest opcode vector of the idiom / dataflow specification
MaxLenI == 4
\* longest opcode vector of the assignment specification
MaxLenD == 4
\* longest opcode vector of the return specification
MaxLenR == 4
\* longest opcode vector of a function of the closure specification
MaxLenS == 2
\* invocations of decompile_function the call stack holds before it overflows
MaxDepth == 4
\* width in bits of the integers of the condition specification
IntBits == 2
\* longest opcode vector of the specification of the opcodes without an arm
MaxLenO == 4

-----------------------------------------------------------------------------
(* Expressions (ast::Expr) are token sequences in prefix form, so that any   *)
(* two expressions are comparable.  Statements are records of one shape.    *)

None == ""

Unknown(msg) == <<"Unknown", msg>>
IsUnknown(e) == e[1] = "Unknown"
missing_expr == Unknown("missing expr")
Variable(r, name) == <<"Var", ToString(r), name>>
cst_bool(b) == <<"Bool", IF b THEN "true" ELSE "false">>
cst_int(n) == <<"Int", ToString(n)>>
cst_null == <<"Null">>
cst_this == <<"This">>
not(e) == <<"not">> \o e
eq(a, b) == <<"eq">> \o a \o b
noteq(a, b) == <<"noteq">> \o a \o b
gt(a, b) == <<"gt">> \o a \o b
gte(a, b) == <<"gte">> \o a \o b
lt(a, b) == <<"lt">> \o a \o b
lte(a, b) == <<"lte">> \o a \o b

RECURSIVE Concat(_)
Concat(ss) == IF ss = <<>> THEN <<>> ELSE Head(ss) \o Concat(Tail(ss))

call(callee, args) == <<"Call", ToString(Len(args))>> \o callee \o Concat(args)
call_fun(fun, args) == call(<<"Fun", ToString(fun)>>, args)
Field(e, name) == <<"Field", name>> \o e
Constructor(ty, args) == <<"New", ty, ToString(Len(args))>> \o Concat(args)
\* Closure(fun, body): the body by the shape of its statements
RECURSIVE StmtTokens(_)
StmtTokens(body) ==
    IF body = <<>> THEN <<>>
    ELSE <<Head(body).k>> \o Head(body).e1 \o Head(body).e2
            \o StmtTokens(Head(body).body) \o StmtTokens(Tail(body))
Closure(fun, body) ==
    <<"Closure", ToString(fun), ToString(Len(body))>> \o StmtTokens(body)

\* Anonymous(type, fields): the keys of the mapping in ascending order
RECURSIVE AnonFields(_, _)
AnonFields(fields, keys) ==
    IF keys = {} THEN <<>>
    ELSE LET k == CHOOSE x \in keys : \A y \in keys : x <= y IN
         <<ToString(k)>> \o fields[k] \o AnonFields(fields, keys \ {k})
Anonymous(ty, fields) ==
    <<"Anon", ty, ToString(Cardinality(DOMAIN fields))>>
        \o AnonFields(fields, DOMAIN fields)

\* Statement constructors; e1/e2/body/cases are empty where a variant has none.
\* `at` is a history tag, not part of the AST: the index of the opcode that
\* emitted the statement (for a closed scope, of the opcode that opened it).
Stmt(k, decl, e1, e2, body, cases) ==
    [k |-> k, decl |-> decl, e1 |-> e1, e2 |-> e2, body |-> body, cases |-> cases,
     at |-> -1]
Assign(decl, variable, assign) == Stmt("Assign", decl, variable, assign, <<>>, <<>>)
ExprStmt(e) == Stmt("ExprStmt", FALSE, e, <<>>, <<>>, <<>>)
Return(e) == Stmt("Return", FALSE, e, <<>>, <<>>, <<>>)
Throw(e) == Stmt("Throw", FALSE, e, <<>>, <<>>, <<>>)
Break == Stmt("Break", FALSE, <<>>, <<>>, <<>>, <<>>)
Continue == Stmt("Continue", FALSE, <<>>, <<>>, <<>>, <<>>)
If(cond, body) == Stmt("If", FALSE, cond, <<>>, body, <<>>)
Else(body) == Stmt("Else", FALSE, <<>>, <<>>, body, <<>>)
While(cond, body) == Stmt("While", FALSE, cond, <<>>, body, <<>>)
Try(body) == Stmt("Try", FALSE, <<>>, <<>>, body, <<>>)
SwitchStmt(arg, default, cases) == Stmt("Switch", FALSE, arg, <<>>, default, cases)

-----------------------------------------------------------------------------
(* The function's static tables *)

\* Opcode record: op, dst, a, b (registers or references), off (jump offset),
\* lst (argument registers or switch offsets), nm (var_name at this index)
Op(op, dst, a, b, off, lst, nm) ==
    [op |-> op, dst |-> dst, a |-> a, b |-> b, off |-> off, lst |-> lst, nm |-> nm]

\* f.regs: r0 bool, r1 int, r2 void, r3 object, r4 virtual {a,b},
\* r5 virtual {}, r6 int, r7 int
regtype(r) ==
    CASE r = 0 -> "bool" [] r = 1 -> "int" [] r = 2 -> "void" [] r = 3 -> "obj"
      [] r = 4 -> "virt2" [] r = 5 -> "virt0" [] OTHER -> "int"
is_void(ty) == ty = "void"
\* number of fields of a Type::Virtual
NFields(ty) == CASE ty = "virt2" -> 2 [] OTHER -> 0

\* function table: fun 1 is a plain function returning int, fun 2 a method
\* returning void, fun 3 a constructor (a method returning void)
FunIsMethod(fun) == fun \in {2, 3}
FunRetVoid(fun) == fun \in {2, 3}
FunName(fun) == CASE fun = 2 -> "m" [] fun = 3 -> "new" [] OTHER -> "f"

\* ast::field: the field's source name, resolved from the owning type
field(e, ty, f) == Field(e, CASE f = 0 -> "a" [] f = 1 -> "b" [] OTHER -> "?")

\* f.ops[j] for a 0-based j; InRange(j) is the bounds check of the indexing
InRange(j) == j >= 0 /\ j < Len(ops)
OpAt(j) == ops[j + 1]
var_name(j) == OpAt(j).nm

-----------------------------------------------------------------------------
(* The scope stack (mod scopes), from its contract.  A scope holds its kind, *)
(* the absolute offset where it ends, the statements received so far and    *)
(* shape-specific data; `at` remembers the opcode that opened it.           *)

Scope(ty, at, end, start, cond, offsets) ==
    [ty |-> ty, at |-> at, end |-> end, start |-> start, cond |-> cond,
     stmts |-> <<>>, offsets |-> offsets,
     cases |-> [k \in 1..Len(offsets) |-> <<>>], cur |-> 0]

\* Scopes::new(): only the function body is open
NewScopes == <<Scope("Root", -1, -1, -1, <<>>, <<>>)>>

Top(s) == s[Len(s)]

\* a statement received by a scope goes to its body; in a switch, to the
\* case that is being filled (the default one before the first case)
AddStmt(sc, st) ==
    IF sc.ty = "Switch" /\ sc.cur > 0
    THEN [sc EXCEPT !.cases[sc.cur] = Append(@, st)]
    ELSE [sc EXCEPT !.stmts = Append(@, st)]

\* the statement a closed scope becomes
CloseScope(sc) ==
    [(CASE sc.ty = "If" -> If(sc.cond, sc.stmts)
        [] sc.ty = "Else" -> Else(sc.stmts)
        [] sc.ty = "Loop" -> While(sc.cond, sc.stmts)
        [] sc.ty = "Switch" -> SwitchStmt(sc.cond, sc.stmts, sc.cases)
        [] OTHER -> Try(sc.stmts)) EXCEPT !.at = sc.at]

scopes_push_stmt(s, st) == [s EXCEPT ![Len(s)] = AddStmt(@, st)]
push_loop(s, start) == Append(s, Scope("Loop", start, -1, start, Unknown("no cond"), <<>>))
\* the jump arms pass offset + 1: the distance from the current opcode to the
\* first opcode after the region, which ends at cursor + len
push_if(s, len, cond) == Append(s, Scope("If", cursor, cursor + len, -1, cond, <<>>))
push_else(s, len) == Append(s, Scope("Else", cursor, cursor + len, -1, <<>>, <<>>))
push_try(s, len) == Append(s, Scope("Try", cursor, cursor + len, -1, <<>>, <<>>))
push_switch(s, len, arg, offsets) ==
    Append(s, Scope("Switch", cursor, cursor + len, -1, arg, offsets))
push_switch_case(s, pos) == [s EXCEPT ![Len(s)].cur = pos]

\* index in the stack of the innermost enclosing loop, 0 when there is none
RECURSIVE LoopIdxFrom(_, _)
LoopIdxFrom(s, k) ==
    IF k = 0 THEN 0 ELSE IF s[k].ty = "Loop" THEN k ELSE LoopIdxFrom(s, k - 1)
update_last_loop_cond(s) == LoopIdxFrom(s, Len(s))
has_loop(s) == LoopIdxFrom(s, Len(s)) # 0
last_loop_start(s) == s[LoopIdxFrom(s, Len(s))].start
last_is_if(s) == Top(s).ty = "If"
last_is_switch_ctx(s) == Top(s).ty = "Switch"
has_scopes(s) == Len(s) > 1
\* end_last_loop answers only when the innermost scope is the loop
can_end_last_loop(s) == Top(s).ty = "Loop"
statements(s) == s[1].stmts

Ends(sc) == sc.ty \in {"If", "Else", "Switch", "Try"}
RemoveAt(s, k) == [j \in 1..(Len(s) - 1) |-> IF j < k THEN s[j] ELSE s[j + 1]]

\* advance(): with the cursor at c, close every scope that ends at c, the
\* innermost first, each into the scope that encloses it
RECURSIVE CloseFrom(_, _, _)
CloseFrom(s, k, c) ==
    IF k < 2 THEN s
    ELSE IF Ends(s[k]) /\ s[k].end = c
         THEN CloseFrom(RemoveAt([s EXCEPT ![k - 1] = AddStmt(@, CloseScope(s[k]))], k),
                        k - 1, c)
         ELSE CloseFrom(s, k - 1, c)
advance(s) == CloseFrom(s, Len(s), cursor + 1)

-----------------------------------------------------------------------------
(* The macros of decompile_function, as operators on the pass's local state *)

Local == [scopes |-> scopes, reg_state |-> reg_state, expr_ctx |-> expr_ctx,
          seen |-> seen, status |-> status, reason |-> reason, log |-> log,
          yield |-> yield]

Panic(m, msg) == [m EXCEPT !.status = "abort", !.reason = msg]

Stamp(st) == IF st.at = -1 THEN [st EXCEPT !.at = i] ELSE st

push_stmt(m, st) ==
    [m EXCEPT !.scopes = scopes_push_stmt(@, Stamp(st)),
              !.log = Append(@, Stamp(st))]

Insert(rs, r, e) == (r :> e) @@ rs

\* (variant: every named assignment is a declaration)
push_expr_AlwaysDeclares(m, pos, dst, e) ==
    LET name == var_name(pos) IN
    IF name = None
    THEN [m EXCEPT !.reg_state = Insert(@, dst, e)]
    ELSE push_stmt([m EXCEPT !.reg_state = Insert(@, dst, Variable(dst, name)),
                             !.seen = @ \cup {name}],
                   Assign(TRUE, Variable(dst, name), e))

\* (variant: a named destination keeps the value itself in the register state)
push_expr_NoRebind(m, pos, dst, e) ==
    LET name == var_name(pos) IN
    IF name = None
    THEN [m EXCEPT !.reg_state = Insert(@, dst, e)]
    ELSE push_stmt([m EXCEPT !.reg_state = Insert(@, dst, e),
                             !.seen = @ \cup {name}],
                   Assign(name \notin m.seen, Variable(dst, name), e))

push_expr(m, pos, dst, e) ==
    LET name == var_name(pos) IN
    IF name = None
    THEN [m EXCEPT !.reg_state = Insert(@, dst, e)]
    ELSE push_stmt([m EXCEPT !.reg_state = Insert(@, dst, Variable(dst, name)),
                             !.seen = @ \cup {name}],
                   Assign(name \notin m.seen, Variable(dst, name), e))

\* (variant: a register with no entry reads as null)
expr_NullWhenMissing(m, r) == IF r \in DOMAIN m.reg_state THEN m.reg_state[r] ELSE cst_null

expr(m, r) == IF r \in DOMAIN m.reg_state THEN m.reg_state[r] ELSE missing_expr

make_args(m, regs) == [k \in 1..Len(regs) |-> expr(m, regs[k])]

IsBackEdge(o) == o.op = "JAlways" /\ o.off < 0

\* (variant: the region of an if ends one opcode early)
push_jmp_ShortIf(m, offset, cond) ==
    IF offset > 0
    THEN IF ~InRange(i + offset)
         THEN Panic(m, "index out of bounds")
         ELSE IF IsBackEdge(OpAt(i + offset))
              THEN LET k == update_last_loop_cond(m.scopes) IN
                   IF k # 0
                   THEN IF IsUnknown(m.scopes[k].cond)
                        THEN [m EXCEPT !.scopes[k].cond = cond]
                        ELSE [m EXCEPT !.scopes = push_if(@, offset, cond)]
                   ELSE [m EXCEPT !.scopes = push_if(@, offset, cond)]
              ELSE [m EXCEPT !.scopes = push_if(@, offset, cond)]
    ELSE m

\* (variant: a loop exit test is never recognised)
push_jmp_NoBackpatch(m, offset, cond) ==
    IF offset > 0
    THEN IF ~InRange(i + offset)
         THEN Panic(m, "index out of bounds")
         ELSE [m EXCEPT !.scopes = push_if(@, offset + 1, cond)]
    ELSE m

push_jmp(m, offset, cond) ==
    IF offset > 0
    THEN IF ~InRange(i + offset)
         THEN Panic(m, "index out of bounds")
         ELSE IF IsBackEdge(OpAt(i + offset))
              THEN LET k == update_last_loop_cond(m.scopes) IN
                   IF k # 0
                   THEN IF IsUnknown(m.scopes[k].cond)
                        THEN [m EXCEPT !.scopes[k].cond = cond]
                        ELSE [m EXCEPT !.scopes = push_if(@, offset + 1, cond)]
                   ELSE [m EXCEPT !.scopes = push_if(@, offset + 1, cond)]
              ELSE [m EXCEPT !.scopes = push_if(@, offset + 1, cond)]
    ELSE m

-----------------------------------------------------------------------------
(* The arms of `match o` *)

CondJumps == {"JTrue", "JFalse", "JNull", "JNotNull", "JSGte", "JUGte", "JSGt",
              "JSLte", "JSLt", "JULt", "JEq", "JNotEq"}

\* the condition each conditional jump hands to push_jmp
JumpCond(m, o) ==
    CASE o.op = "JTrue" -> not(expr(m, o.a))
      [] o.op = "JFalse" -> expr(m, o.a)
      [] o.op = "JNull" -> noteq(expr(m, o.a), cst_null)
      [] o.op = "JNotNull" -> eq(expr(m, o.a), cst_null)
      [] o.op \in {"JSGte", "JUGte"} -> gt(expr(m, o.b), expr(m, o.a))
      [] o.op = "JSGt" -> gte(expr(m, o.b), expr(m, o.a))
      [] o.op = "JSLte" -> lt(expr(m, o.b), expr(m, o.a))
      [] o.op \in {"JSLt", "JULt"} -> lte(expr(m, o.b), expr(m, o.a))
      [] o.op = "JEq" -> noteq(expr(m, o.a), expr(m, o.b))
      [] OTHER -> eq(expr(m, o.a), expr(m, o.b))

CondJumpArm(m, o) == push_jmp(m, o.off, JumpCond(m, o))

\* another JAlways after index i that jumps to loop_start
HasLaterJump(loop_start) ==
    \E j \in (i + 1)..(Len(ops) - 1) :
        OpAt(j).op = "JAlways" /\ j + OpAt(j).off + 1 = loop_start

\* position (0-based) of the first recorded case offset equal to i, -1 if none
RECURSIVE Position(_, _)
Position(offsets, k) ==
    IF k > Len(offsets) THEN -1
    ELSE IF offsets[k] = i THEN k - 1 ELSE Position(offsets, k + 1)

\* (variant: a backward jump outside any loop is skipped)
JAlwaysBackward_NoLoopCheck(m) ==
    IF ~has_loop(m.scopes)
    THEN m
    ELSE IF HasLaterJump(last_loop_start(m.scopes))
         THEN push_stmt(m, Continue)
         ELSE IF can_end_last_loop(m.scopes)
              THEN push_stmt([m EXCEPT !.scopes = SubSeq(@, 1, Len(@) - 1)],
                             CloseScope(Top(m.scopes)))
              ELSE Panic(m, "Last scope is not a loop !")

\* (variant: every backward jump inside a loop is taken for the last one)
JAlwaysBackward_NoContinue(m) ==
    IF ~has_loop(m.scopes)
    THEN Panic(m, "Backward jump but we aren't in a loop ?")
    ELSE IF can_end_last_loop(m.scopes)
         THEN push_stmt([m EXCEPT !.scopes = SubSeq(@, 1, Len(@) - 1)],
                        CloseScope(Top(m.scopes)))
         ELSE Panic(m, "Last scope is not a loop !")

JAlwaysBackward(m) ==
    IF ~has_loop(m.scopes)
    THEN Panic(m, "Backward jump but we aren't in a loop ?")
    ELSE IF HasLaterJump(last_loop_start(m.scopes))
         THEN push_stmt(m, Continue)
         ELSE IF can_end_last_loop(m.scopes)
              THEN push_stmt([m EXCEPT !.scopes = SubSeq(@, 1, Len(@) - 1)],
                             CloseScope(Top(m.scopes)))
              ELSE Panic(m, "Last scope is not a loop !")

\* (variant: inside a loop every forward jump is a break)
JAlwaysForward_BreakAnywhere(m, offset) ==
    IF last_is_switch_ctx(m.scopes)
    THEN LET pos == Position(Top(m.scopes).offsets, 1) IN
         IF pos >= 0
         THEN [m EXCEPT !.scopes = push_switch_case(@, pos + 1)]
         ELSE Panic(m, "no matching offset for switch case")
    ELSE IF has_loop(m.scopes)
         THEN IF ~InRange(i + offset)
              THEN Panic(m, "index out of bounds")
              ELSE push_stmt(m, Break)
         ELSE IF last_is_if(m.scopes)
              THEN [m EXCEPT !.scopes = push_else(@, offset + 1)]
              ELSE m

JAlwaysForward(m, offset) ==
    IF last_is_switch_ctx(m.scopes)
    THEN LET pos == Position(Top(m.scopes).offsets, 1) IN
         IF pos >= 0
         THEN [m EXCEPT !.scopes = push_switch_case(@, pos + 1)]
         ELSE Panic(m, "no matching offset for switch case")
    ELSE IF has_loop(m.scopes)
         THEN IF ~InRange(i + offset)
              THEN Panic(m, "index out of bounds")
              ELSE IF IsBackEdge(OpAt(i + offset))
                   THEN push_stmt(m, Break)
                   ELSE m
         ELSE IF last_is_if(m.scopes)
              THEN [m EXCEPT !.scopes = push_else(@, offset + 1)]
              ELSE m

JAlwaysArm(m, o) ==
    IF o.off < 0 THEN JAlwaysBackward(m) ELSE JAlwaysForward(m, o.off)

\* o.lst holds the relative case offsets, o.off the relative end
SwitchArm(m, o) ==
    [m EXCEPT !.scopes = push_switch(@, o.off + 1, expr(m, o.a),
                                     [k \in 1..Len(o.lst) |-> i + o.lst[k]])]

LabelArm(m) == [m EXCEPT !.scopes = push_loop(@, i)]

\* (variant: a void return is displayed at the top level too)
RetArm_AlwaysReturns(m, o) ==
    push_stmt(m, Return(IF is_void(regtype(o.a)) THEN <<>> ELSE expr(m, o.a)))

RetArm(m, o) ==
    IF has_scopes(m.scopes)
    THEN push_stmt(m, Return(IF is_void(regtype(o.a)) THEN <<>> ELSE expr(m, o.a)))
    ELSE IF ~is_void(regtype(o.a))
         THEN push_stmt(m, Return(expr(m, o.a)))
         ELSE m

TrapArm(m, o) == [m EXCEPT !.scopes = push_try(@, o.off + 1)]

\* Int, Bool, Null: o.a is the resolved literal
ConstArm(m, o) ==
    push_expr(m, i, o.dst,
              CASE o.op = "Int" -> cst_int(o.a)
                [] o.op = "Bool" -> cst_bool(o.a = 1)
                [] OTHER -> cst_null)

\* ExprCtx: Constructor { reg, pos } and Anonymous { pos, fields, remaining }
CtorCtx(reg, pos) ==
    [k |-> "Constructor", reg |-> reg, pos |-> pos, fields |-> <<>>, remaining |-> 0]
AnonCtx(pos, fields, remaining) ==
    [k |-> "Anonymous", reg |-> -1, pos |-> pos, fields |-> fields,
     remaining |-> remaining]
Pop(s) == SubSeq(s, 1, Len(s) - 1)
LastIsCtor(m) == m.expr_ctx # <<>> /\ Top(m.expr_ctx).k = "Constructor"

\* the deferred constructor expression of the idiom on top of the stack
CtorExpr(m, args) ==
    LET c == Top(m.expr_ctx) IN
    push_expr([m EXCEPT !.yield = Append(@, c.pos)], c.pos, c.reg,
              Constructor(regtype(c.reg), make_args(m, args)))

\* a call that is not part of a constructor idiom (o.a is the callee)
RegularCall(m, o, callexpr) ==
    IF FunRetVoid(o.a)
    THEN push_stmt(m, ExprStmt(callexpr))
    ELSE push_expr(m, i, o.dst, callexpr)

\* push_call!: Call1..Call4, o.lst = <<arg0, ...>>
CallArm(m, o) ==
    IF LastIsCtor(m)
    THEN IF Top(m.expr_ctx).reg = o.lst[1]
         THEN [CtorExpr(m, Tail(o.lst)) EXCEPT !.expr_ctx = Pop(@)]
         ELSE m
    ELSE RegularCall(m, o,
            IF FunIsMethod(o.a)
            THEN call(Field(expr(m, o.lst[1]), FunName(o.a)), make_args(m, Tail(o.lst)))
            ELSE call_fun(o.a, make_args(m, o.lst)))

CallNArm(m, o) ==
    IF LastIsCtor(m)
    THEN IF o.lst = <<>>
         THEN Panic(m, "index out of bounds")
         ELSE IF Top(m.expr_ctx).reg = o.lst[1]
              THEN CtorExpr(m, Tail(o.lst))
              ELSE m
    ELSE RegularCall(m, o, call_fun(o.a, make_args(m, o.lst)))

\* o.a = obj, o.b = field, o.lst = <<src>>.  `remaining` is a usize kept by
\* its residue: 0 - 1 panics in a build with overflow checks and wraps
\* to -1 (that is, usize::MAX) in a build without
SetFieldArm(m, o, overflow_checks) ==
    IF m.expr_ctx # <<>> /\ Top(m.expr_ctx).k = "Anonymous"
    THEN LET c == Top(m.expr_ctx)
             fields == Insert(c.fields, o.b, expr(m, o.lst[1]))
             remaining == c.remaining - 1
             popped == [m EXCEPT !.expr_ctx = Pop(@)]
         IN IF c.remaining = 0 /\ overflow_checks
            THEN Panic(popped, "attempt to subtract with overflow")
            ELSE IF remaining = 0
                 THEN push_expr(popped, c.pos, o.a, Anonymous(regtype(o.a), fields))
                 ELSE [m EXCEPT !.expr_ctx =
                          Append(Pop(@), AnonCtx(c.pos, fields, remaining))]
    ELSE IF m.expr_ctx # <<>>
         THEN m
         ELSE push_stmt(m, Assign(FALSE, field(expr(m, o.a), regtype(o.a), o.b),
                                  expr(m, o.lst[1])))

NewArm(m, o) ==
    LET ty == regtype(o.dst) IN
    IF ty = "obj"
    THEN [m EXCEPT !.expr_ctx = Append(@, CtorCtx(o.dst, i))]
    ELSE IF ty \in {"virt2", "virt0"}
         THEN [m EXCEPT !.expr_ctx = Append(@, AnonCtx(i, <<>>, NFields(ty)))]
         ELSE push_expr(m, i, o.dst, Constructor(ty, <<>>))

\* o.a = src
\* (variant: the source register keeps its expression)
MovArm_NoRebind(m, o) == push_expr(m, i, o.dst, expr(m, o.a))

MovArm(m, o) ==
    [push_expr(m, i, o.dst, expr(m, o.a))
        EXCEPT !.reg_state = Insert(@, o.a, Variable(o.dst, var_name(i)))]

\* initial register state: the formal arguments, and their names as seen
ArgState == [r \in 0..(Len(fargs) - 1) |-> Variable(r, fargs[r + 1])]
ArgSeen == {fargs[k] : k \in 1..Len(fargs)} \ {None}

-----------------------------------------------------------------------------
(* The state machine *)

Running == status = "run" /\ i < Len(ops)
Cur == OpAt(i)

\* no nested invocation has returned
NoRet == [ok |-> FALSE, body |-> <<>>]

\* the end of one iteration: a panic unwinds, otherwise scopes.advance()
Commit(m) ==
    /\ reg_state' = m.reg_state
    /\ expr_ctx' = m.expr_ctx
    /\ seen' = m.seen
    /\ status' = m.status
    /\ reason' = m.reason
    /\ log' = m.log
    /\ yield' = m.yield
    /\ mid' = m.scopes
    /\ lastop' = i
    /\ IF m.status = "abort"
       THEN scopes' = m.scopes /\ cursor' = cursor /\ i' = i
       ELSE scopes' = advance(m.scopes) /\ cursor' = cursor + 1 /\ i' = i + 1
    /\ ret' = NoRet
    /\ UNCHANGED <<ops, fargs, result, code, frames, vals>>

InitWith(programs, arglists) ==
    /\ ops \in programs
    /\ fargs \in arglists
    /\ i = 0
    /\ cursor = 0
    /\ scopes = NewScopes
    /\ reg_state = ArgState
    /\ expr_ctx = <<>>
    /\ seen = ArgSeen
    /\ status = "run"
    /\ reason = ""
    /\ result = <<>>
    /\ log = <<>>
    /\ mid = NewScopes
    /\ lastop = -1
    /\ yield = <<>>
    /\ code = <<>>
    /\ frames = <<>>
    /\ ret = NoRet
    /\ vals = <<>>

DoCondJump == Running /\ Cur.op \in CondJumps /\ Commit(CondJumpArm(Local, Cur))
DoJAlways == Running /\ Cur.op = "JAlways" /\ Commit(JAlwaysArm(Local, Cur))
DoSwitch == Running /\ Cur.op = "Switch" /\ Commit(SwitchArm(Local, Cur))
DoLabel == Running /\ Cur.op = "Label" /\ Commit(LabelArm(Local))
DoRet == Running /\ Cur.op = "Ret" /\ Commit(RetArm(Local, Cur))
DoTrap == Running /\ Cur.op = "Trap" /\ Commit(TrapArm(Local, Cur))
DoConst == Running /\ Cur.op \in {"Int", "Bool", "Null"} /\ Commit(ConstArm(Local, Cur))
\* (variant: an opcode without an arm binds its destination to a placeholder)
DoOther_BindsDestination ==
    /\ Running /\ Cur.op \in {"EndTrap", "EnumIndex"}
    /\ Commit(push_expr(Local, i, Cur.dst, Unknown("unhandled")))

\* EndTrap and the opcodes of the default arm
DoOther == Running /\ Cur.op \in {"EndTrap", "EnumIndex"} /\ Commit(Local)

DoMov == Running /\ Cur.op = "Mov" /\ Commit(MovArm(Local, Cur))
DoCall == Running /\ Cur.op = "Call" /\ Commit(CallArm(Local, Cur))
DoCallN == Running /\ Cur.op = "CallN" /\ Commit(CallNArm(Local, Cur))
DoSetField ==
    /\ Running /\ Cur.op = "SetField"
    /\ \E overflow_checks \in BOOLEAN : Commit(SetFieldArm(Local, Cur, overflow_checks))
DoNew == Running /\ Cur.op = "New" /\ Commit(NewArm(Local, Cur))

\* StaticClosure, first half: decompile_function(code, fun) is called from
\* inside the arm; the invocation at hand is suspended on the call stack and
\* the callee starts from its own initial state.  The call stack is finite.
EnterClosure ==
    /\ Running /\ Cur.op = "StaticClosure" /\ ~ret.ok
    /\ IF Len(frames) + 1 >= MaxDepth
       THEN /\ status' = "abort"
            /\ reason' = "stack overflow"
            /\ UNCHANGED <<ops, i, cursor, scopes, reg_state, expr_ctx, seen, frames>>
       ELSE /\ frames' = Append(frames,
                    [ops |-> ops, i |-> i, cursor |-> cursor, scopes |-> scopes,
                     reg_state |-> reg_state, expr_ctx |-> expr_ctx, seen |-> seen])
            /\ ops' = code[Cur.a + 1]
            /\ i' = 0
            /\ cursor' = 0
            /\ scopes' = NewScopes
            /\ reg_state' = <<>>
            /\ expr_ctx' = <<>>
            /\ seen' = {}
            /\ UNCHANGED <<status, reason>>
    /\ UNCHANGED <<fargs, result, log, mid, lastop, yield, code, ret, vals>>

\* the nested invocation returns scopes.statements() to the suspended arm
ExitClosure ==
    /\ status = "run" /\ i = Len(ops) /\ frames # <<>>
    /\ LET fr == Top(frames) IN
         /\ ops' = fr.ops
         /\ i' = fr.i
         /\ cursor' = fr.cursor
         /\ scopes' = fr.scopes
         /\ reg_state' = fr.reg_state
         /\ expr_ctx' = fr.expr_ctx
         /\ seen' = fr.seen
    /\ frames' = Pop(frames)
    /\ ret' = [ok |-> TRUE, body |-> statements(scopes)]
    /\ UNCHANGED <<fargs, status, reason, result, log, mid, lastop, yield, code, vals>>

\* StaticClosure, second half: o.a = fun
StaticClosureArm(m, o, body) == push_expr(m, i, o.dst, Closure(o.a, body))

DoStaticClosure ==
    /\ Running /\ Cur.op = "StaticClosure" /\ ret.ok
    /\ Commit(StaticClosureArm(Local, Cur, ret.body))

\* scopes.statements(): the pass returns the function body
Finish ==
    /\ status = "run" /\ i = Len(ops) /\ frames = <<>>
    /\ status' = "done"
    /\ result' = statements(scopes)
    /\ UNCHANGED <<ops, fargs, i, cursor, scopes, reg_state, expr_ctx, seen,
                   reason, log, mid, lastop, yield, code, frames, ret, vals>>

-----------------------------------------------------------------------------
(* Control-flow specification: every opcode vector of at most MaxLen opcodes *)
(* over the alphabet below, and the scenarios S2 and S3 of the design.       *)

Label == Op("Label", 0, 0, 0, 0, <<>>, None)
BoolOp(dst, v, nm) == Op("Bool", dst, v, 0, 0, <<>>, nm)
IntOp(dst, v, nm) == Op("Int", dst, v, 0, 0, <<>>, nm)
JFalse(cond, off) == Op("JFalse", 0, cond, 0, off, <<>>, None)
JAlways(off) == Op("JAlways", 0, 0, 0, off, <<>>, None)
Ret(r) == Op("Ret", 0, r, 0, 0, <<>>, None)
Trap(exc, off) == Op("Trap", 0, exc, 0, off, <<>>, None)
Switch(r, offsets, end) == Op("Switch", 0, r, 0, end, offsets, None)
EndTrap == Op("EndTrap", 0, 0, 0, 0, <<>>, None)

AlphabetCF ==
    {Label, BoolOp(0, 0, None), IntOp(1, 1, "x"), JFalse(0, 1), JFalse(0, 2),
     JAlways(-3), JAlways(-2), JAlways(1), Ret(2), Trap(0, -1), Trap(0, 1),
     Switch(0, <<1>>, 2), EndTrap}

ScenarioS2 == <<BoolOp(0, 1, None), JFalse(0, 1), IntOp(1, 1, "x"), Ret(1)>>
ScenarioS3 == <<Label, BoolOp(0, 0, None), JFalse(0, 2), JAlways(-3), Ret(2)>>
\* S3 with the exit test landing on the back-edge
ScenarioS3b == <<Label, BoolOp(0, 0, None), JFalse(0, 1), JAlways(-3), Ret(2)>>

\* a loop with two exit tests on r0, unset at the first and bound at the second
ScenarioTwoExits ==
    <<Label, JFalse(0, 3), BoolOp(0, 0, None), JFalse(0, 1), JAlways(-5)>>

ProgramsCF ==
    UNION {[1..n -> AlphabetCF] : n \in 1..MaxLen}
        \cup {ScenarioS2, ScenarioS3, ScenarioS3b, ScenarioTwoExits}

InitCF == InitWith(ProgramsCF, {<<>>})

NextCF ==
    \/ DoCondJump
    \/ DoJAlways
    \/ DoSwitch
    \/ DoLabel
    \/ DoRet
    \/ DoTrap
    \/ DoConst
    \/ DoOther
    \/ Finish

SpecCF == InitCF /\ [][NextCF]_vars

-----------------------------------------------------------------------------
(* Idiom / dataflow specification: every opcode vector of at most MaxLenI   *)
(* opcodes over the alphabet below, with no formal argument or with one     *)
(* formal argument named "x".                                               *)

New(dst, nm) == Op("New", dst, 0, 0, 0, <<>>, nm)
Mov(dst, src, nm) == Op("Mov", dst, src, 0, 0, <<>>, nm)
Call(dst, fun, args) == Op("Call", dst, fun, 0, 0, args, None)
CallN(dst, fun, args) == Op("CallN", dst, fun, 0, 0, args, None)
SetField(obj, f, src) == Op("SetField", 0, obj, f, 0, <<src>>, None)

AlphabetI ==
    {New(3, "o"), New(4, None), New(5, None), IntOp(6, 7, None), Mov(7, 6, "x"),
     Call(6, 3, <<3, 6>>), Call(6, 1, <<6>>), CallN(6, 3, <<3, 6>>),
     SetField(4, 0, 6), SetField(4, 1, 6), SetField(3, 0, 6)}

ProgramsI == UNION {[1..n -> AlphabetI] : n \in 1..MaxLenI}

InitI == InitWith(ProgramsI, {<<>>, <<"x">>})

NextI ==
    \/ DoConst
    \/ DoMov
    \/ DoCall
    \/ DoCallN
    \/ DoSetField
    \/ DoNew
    \/ Finish

SpecI == InitI /\ [][NextI]_vars

-----------------------------------------------------------------------------
(* Assignment specification: every opcode vector of at most MaxLenD opcodes *)
(* over the value-producing opcodes below (named and unnamed destinations,  *)
(* a Mov of a register onto itself included), with no formal argument or   *)
(* with one formal argument named "x".                                      *)

CallAs(dst, fun, args, nm) == Op("Call", dst, fun, 0, 0, args, nm)

AlphabetD ==
    {IntOp(6, 7, None), IntOp(6, 7, "x"), IntOp(7, 1, "y"),
     Mov(7, 6, "x"), Mov(7, 6, None), Mov(6, 6, None), Mov(6, 6, "y"),
     CallAs(6, 1, <<6>>, None), CallAs(7, 1, <<6, 7>>, "y"), New(7, "y"), New(6, None)}

ProgramsD == UNION {[1..n -> AlphabetD] : n \in 1..MaxLenD}

InitD == InitWith(ProgramsD, {<<>>, <<"x">>})

NextD ==
    \/ DoConst
    \/ DoMov
    \/ DoCall
    \/ DoNew
    \/ Finish

SpecD == InitD /\ [][NextD]_vars

-----------------------------------------------------------------------------
(* Return specification: every opcode vector of at most MaxLenR opcodes over *)
(* the alphabet below: returns of a void, an int and an unbound register,    *)
(* at the top level and inside loops, ifs, elses, switches and tries.        *)

AlphabetR ==
    {Label, IntOp(1, 1, None), JFalse(0, 1), JFalse(0, 2), JAlways(-2), JAlways(1),
     Trap(0, 1), Switch(0, <<1>>, 2), Ret(2), Ret(1), Ret(6)}

ProgramsR == UNION {[1..n -> AlphabetR] : n \in 1..MaxLenR}

InitR == InitWith(ProgramsR, {<<>>})

NextR ==
    \/ DoCondJump
    \/ DoJAlways
    \/ DoSwitch
    \/ DoLabel
    \/ DoRet
    \/ DoTrap
    \/ DoConst
    \/ Finish

SpecR == InitR /\ [][NextR]_vars

-----------------------------------------------------------------------------
(* Closure specification: every bytecode module of the functions FunsS, each *)
(* of at most MaxLenS opcodes over the alphabet below; function 0 is the one *)
(* handed to decompile_function.  A StaticClosure may reference any function *)
(* of the module, its own included.                                          *)

StaticClosure(dst, fun, nm) == Op("StaticClosure", dst, fun, 0, 0, <<>>, nm)

FunsS == {0, 1}

AlphabetS ==
    {StaticClosure(6, 0, None), StaticClosure(6, 1, "g"), IntOp(1, 1, "x"), Ret(1)}

BodiesS == UNION {[1..n -> AlphabetS] : n \in 0..MaxLenS}

InitSC ==
    /\ code \in [{f + 1 : f \in FunsS} -> BodiesS]
    /\ ops = code[1]
    /\ fargs = <<>>
    /\ i = 0
    /\ cursor = 0
    /\ scopes = NewScopes
    /\ reg_state = <<>>
    /\ expr_ctx = <<>>
    /\ seen = {}
    /\ status = "run"
    /\ reason = ""
    /\ result = <<>>
    /\ log = <<>>
    /\ mid = NewScopes
    /\ lastop = -1
    /\ yield = <<>>
    /\ frames = <<>>
    /\ ret = NoRet
    /\ vals = <<>>

NextSC ==
    \/ EnterClosure
    \/ ExitClosure
    \/ DoStaticClosure
    \/ DoConst
    \/ DoRet
    \/ Finish

SpecSC == InitSC /\ [][NextSC]_vars

-----------------------------------------------------------------------------
(* Condition specification: each conditional jump as the test of an if and  *)
(* as the exit test of a loop, on the formal arguments a (r0) and b (r1),   *)
(* for every pair of run-time values of a and b of the opcode's domain:     *)
(* booleans, null and the integers of IntBits bits.                         *)

Jump(op, a, b, off) == Op(op, 0, a, b, off, <<>>, None)

\* run-time values: <<tag, n>>
IntVal(n) == <<"int", n>>
BoolVal(b) == <<"bool", IF b THEN 1 ELSE 0>>
NullVal == <<"null", 0>>
Ints == {IntVal(n) : n \in (-(2 ^ (IntBits - 1)))..(2 ^ (IntBits - 1) - 1)}
Bools == {BoolVal(TRUE), BoolVal(FALSE)}

\* the operand values each jump is defined on
OperandsOf(op) ==
    CASE op \in {"JTrue", "JFalse"} -> [{"a"} -> Bools] 
      [] op \in {"JNull", "JNotNull"} -> [{"a"} -> Ints \cup {NullVal}]
      [] op \in {"JEq", "JNotEq"} -> [{"a", "b"} -> Ints \cup {NullVal}]
      [] OTHER -> [{"a", "b"} -> Ints]

ProgramsJ ==
    UNION {{<<Jump(op, 0, 1, 1), EndTrap>>, <<Label, Jump(op, 0, 1, 1), JAlways(-3)>>} :
              op \in CondJumps}

InitJ ==
    /\ ops \in ProgramsJ
    /\ fargs = <<"a", "b">>
    /\ vals \in UNION {OperandsOf(op) : op \in CondJumps}
    /\ \E k \in 1..Len(ops) : ops[k].op \in CondJumps /\ vals \in OperandsOf(ops[k].op)
    /\ i = 0
    /\ cursor = 0
    /\ scopes = NewScopes
    /\ reg_state = ArgState
    /\ expr_ctx = <<>>
    /\ seen = ArgSeen
    /\ status = "run"
    /\ reason = ""
    /\ result = <<>>
    /\ log = <<>>
    /\ mid = NewScopes
    /\ lastop = -1
    /\ yield = <<>>
    /\ code = <<>>
    /\ frames = <<>>
    /\ ret = NoRet

NextJ ==
    \/ DoCondJump
    \/ DoJAlways
    \/ DoLabel
    \/ DoOther
    \/ Finish

SpecJ == InitJ /\ [][NextJ]_vars

-----------------------------------------------------------------------------
(* Specification of the opcodes without an arm: every opcode vector of at   *)
(* most MaxLenO opcodes over EndTrap, EnumIndex and opcodes that bind       *)
(* registers, declare names, start idioms and open scopes around them.      *)

EnumIndex(dst, value, nm) == Op("EnumIndex", dst, value, 0, 0, <<>>, nm)

AlphabetO ==
    {EndTrap, EnumIndex(6, 3, "e"), New(3, "o"), New(4, None), IntOp(1, 1, "x"),
     JFalse(0, 1), Trap(0, 1), Label}

ProgramsO == UNION {[1..n -> AlphabetO] : n \in 1..MaxLenO}

InitO == InitWith(ProgramsO, {<<>>})

NextO ==
    \/ DoOther
    \/ DoNew
    \/ DoConst
    \/ DoCondJump
    \/ DoTrap
    \/ DoLabel
    \/ Finish

SpecO == InitO /\ [][NextO]_vars

-----------------------------------------------------------------------------
(* Helpers of the properties *)

Compound == {"If", "Else", "While", "Try", "Switch"}

\* the statements of a body that are not scopes, in order, at any depth
RECURSIVE Leaves(_)
Leaves(body) ==
    IF body = <<>> THEN <<>>
    ELSE LET st == Head(body) IN
         (IF st.k \in Compound
          THEN Leaves(st.body) \o Leaves(Concat(st.cases))
          ELSE <<st>>) \o Leaves(Tail(body))

\* every statement of a body, scopes included, at any depth
RECURSIVE Nested(_)
Nested(body) ==
    IF body = <<>> THEN <<>>
    ELSE LET st == Head(body) IN
         <<st>> \o Nested(st.body) \o Nested(Concat(st.cases)) \o Nested(Tail(body))

\* the AST without the history tags
RECURSIVE Erase(_)
Erase(body) ==
    [k \in 1..Len(body) |->
        [body[k] EXCEPT !.at = -1, !.body = Erase(@),
                        !.cases = [c \in 1..Len(@) |-> Erase(@[c])]]]

\* the statements held by the open scopes, at any depth
ScopeStmts(s) ==
    Nested(Concat([k \in 1..Len(s) |-> s[k].stmts \o Concat(s[k].cases)]))

\* the non-scope statements the opcodes lo..hi emitted, in order
LogBetween(l, lo, hi) ==
    SelectSeq(l, LAMBDA st : st.k \notin Compound /\ st.at >= lo /\ st.at <= hi)

IsOpen(s, ty, at) == \E k \in 1..Len(s) : s[k].ty = ty /\ s[k].at = at
Count(seq, P(_)) == Len(SelectSeq(seq, P))

StructuralPanics ==
    {"Backward jump but we aren't in a loop ?",
     "no matching offset for switch case",
     "Last scope is not a loop !"}

-----------------------------------------------------------------------------
(* Properties of the control-flow pass (checked under SpecCF) *)

\* C1: once every opcode has been processed, only the function body is on
\* the scope stack (every loop, if, else, switch and try has been closed).
C1_OnlyBodyOpenAtEnd ==
    (status # "abort" /\ i = Len(ops)) => Len(scopes) = 1

\* C5: the pass aborts only for one of the three structural reasons; no other
\* input, malformed jump offsets included, makes it abort.
C5_OnlyStructuralAborts ==
    status = "abort" => reason \in StructuralPanics

\* C6: each structural condition aborts the pass and nothing is returned: a
\* backward JAlways with no loop open, a forward JAlways in a switch that
\* matches no case offset, a last back-edge when the innermost scope is not
\* a loop.
C6_StructuralConditionsAbort ==
    [][(Running /\ Cur.op = "JAlways") =>
        LET NoLoop == Cur.off < 0 /\ \A k \in 1..Len(scopes) : scopes[k].ty # "Loop"
            NoCase == /\ Cur.off >= 0
                      /\ Top(scopes).ty = "Switch"
                      /\ \A k \in 1..Len(Top(scopes).offsets) : Top(scopes).offsets[k] # i
            NotLoop == /\ Cur.off < 0
                       /\ \E k \in 1..Len(scopes) : scopes[k].ty = "Loop"
                       /\ ~HasLaterJump(last_loop_start(scopes))
                       /\ Top(scopes).ty # "Loop"
        IN (NoLoop \/ NoCase \/ NotLoop) =>
              /\ status' = "abort"
              /\ reason' \in StructuralPanics
              /\ result' = <<>>
              /\ ~(ENABLED Finish)']_vars

C6_Witness ==
    /\ status = "abort"
    /\ reason = "Last scope is not a loop !"
    /\ OpAt(i).op = "JAlways" /\ OpAt(i).off < 0
    /\ Top(scopes).ty = "If"

\* C8: every open if, else, switch and try scope ends strictly beyond the
\* cursor, whatever offset its opening opcode carried.
C8_EndBeyondCursor ==
    status = "run" =>
        \A k \in 1..Len(scopes) : Ends(scopes[k]) => scopes[k].end > cursor

\* C9 (as amended): an if scope opened by a forward conditional jump at index
\* a with offset O stays open up to opcode a+O; if it is the innermost scope
\* once opcode a+O has been handled, it then holds exactly the statements
\* the opcodes a+1..a+O emitted and is closed and emitted as one If, and when
\* its enclosing scope does not end at the same offset the If is the last
\* statement of that scope, which is the innermost again (so the statement
\* of opcode a+O+1 lands there).
C9_IfRegionWhenInnermost ==
    [][\A k \in 2..Len(mid') :
        LET sc == mid'[k]
            st == CloseScope(sc)
            last == sc.at + OpAt(sc.at).off
        IN (status' = "run" /\ sc.ty = "If" /\ k = Len(mid')) =>
              /\ IsOpen(scopes', "If", sc.at) <=> lastop' # last
              /\ lastop' = last =>
                    /\ Leaves(sc.stmts) = LogBetween(log', sc.at + 1, last)
                    /\ Count(ScopeStmts(scopes'), LAMBDA x : x = st) = 1
                    /\ ~(Ends(mid'[k - 1]) /\ mid'[k - 1].end = cursor') =>
                          Top(scopes') = AddStmt(mid'[k - 1], st)]_vars

C9_Witness ==
    /\ status = "run"
    /\ Len(mid) >= 2
    /\ Top(mid).ty = "If"
    /\ Top(mid).stmts # <<>>
    /\ lastop = Top(mid).at + OpAt(Top(mid).at).off
    /\ Len(scopes) = Len(mid) - 1
    /\ Top(scopes).stmts # <<>>
    /\ Top(scopes).stmts[Len(Top(scopes).stmts)].k = "If"

\* C9 (as claimed): every if scope opened at index a with offset O holds
\* exactly the statements of opcodes a+1..a+O, is closed before opcode a+O+1
\* and the statement of opcode a+O+1 lands in the enclosing scope.
C9_IfRegionAlways ==
    [][\A k \in 2..Len(mid') :
        LET sc == mid'[k]
            st == CloseScope(sc)
            last == sc.at + OpAt(sc.at).off
        IN (status' = "run" /\ sc.ty = "If" /\ lastop' = last) =>
              /\ ~IsOpen(scopes', "If", sc.at)
              /\ Leaves(sc.stmts) = LogBetween(log', sc.at + 1, last)
              /\ Top(scopes') = AddStmt(mid'[k - 1], st)]_vars

\* C10 (as amended): with the exit test landing on the back-edge (JFalse
\* offset 1), Label; Bool; JFalse; JAlways{-3}; Ret{void} returns exactly one
\* While with condition Constant(bool,false) and an empty body and no Return;
\* in general a Label followed by an exit test whose offset lands on the
\* loop's single back-edge leaves one While carrying the test's condition.
C10_WhileFromExitTest ==
    /\ ops = ScenarioS3b =>
          /\ status # "abort"
          /\ status = "done" => Erase(result) = <<While(cst_bool(FALSE), <<>>)>>
    /\ (/\ Len(ops) >= 3
        /\ ops[1] = Label
        /\ ops[2].op \in CondJumps /\ ops[2].off = 1
        /\ IsBackEdge(ops[3])
        /\ \A j \in 3..(Len(ops) - 1) : ~(OpAt(j).op = "JAlways" /\ j + OpAt(j).off + 1 = 0)
        /\ lastop = 2)
       => /\ status # "abort"
          /\ Len(scopes) = 1
          /\ Erase(scopes[1].stmts) =
                <<While(JumpCond([reg_state |-> ArgState], ops[2]), <<>>)>>

C10_Witness ==
    /\ ops = ScenarioS3b
    /\ status = "done"
    /\ Len(result) = 1
    /\ result[1].k = "While"

\* C10 (as claimed): the stream S3 with JFalse offset 2 returns exactly one
\* While with condition Constant(bool,false) and an empty body.
C10_ScenarioS3 ==
    ops = ScenarioS3 =>
        /\ status # "abort"
        /\ status = "done" => Erase(result) = <<While(cst_bool(FALSE), <<>>)>>

-----------------------------------------------------------------------------
(* Properties of naming and of the idioms (checked under SpecI) *)

\* the variable names an expression refers to
VarNames(e) == {e[k + 2] : k \in {j \in 1..(Len(e) - 2) : e[j] = "Var"}} \ {None}
StmtNames(st) == VarNames(st.e1) \cup VarNames(st.e2)
Declares(st, n) ==
    st.k = "Assign" /\ st.decl /\ st.e1[1] = "Var" /\ st.e1[3] = n
AllNames == {ops[k].nm : k \in 1..Len(ops)} \cup {fargs[k] : k \in 1..Len(fargs)}

\* C2: a declared name has exactly one Assign with declaration=true, emitted
\* before every other statement or expression that refers to the name; the
\* names of the formal arguments are never declared.
C2_DeclaredOnceBeforeUse ==
    \A n \in AllNames \ {None} :
        LET decls == {k \in 1..Len(log) : Declares(log[k], n)}
            refs == {k \in 1..Len(log) : n \in StmtNames(log[k])}
            held == \E r \in DOMAIN reg_state : n \in VarNames(reg_state[r])
        IN /\ n \in ArgSeen => decls = {}
           /\ decls # {} =>
                 /\ Cardinality(decls) = 1
                 /\ \A d \in decls : /\ \A k \in refs : d <= k
                                     /\ n \notin VarNames(log[d].e2)
           /\ (held \/ refs # {}) => (n \in ArgSeen \/ decls # {})

C2_Witness ==
    \E d, k \in 1..Len(log) :
        /\ d < k
        /\ Declares(log[d], "x")
        /\ log[k].k = "Assign" /\ ~log[k].decl /\ "x" \in VarNames(log[k].e1)
        /\ \E r \in DOMAIN reg_state : "x" \in VarNames(reg_state[r])

\* C3: a Constructor idiom is removed from the idiom stack by the call that
\* consumes it, and yields at most one Constructor expression.
C3_CtorIdiomConsumedOnce ==
    \A k \in 1..Len(yield) :
        /\ \A j \in 1..Len(yield) : yield[j] = yield[k] => j = k
        /\ \A c \in 1..Len(expr_ctx) :
              ~(expr_ctx[c].k = "Constructor" /\ expr_ctx[c].pos = yield[k])

\* order of two usize values given by their residues
ULe(a, b) == IF (a < 0) = (b < 0) THEN a <= b ELSE b < 0
IsAnon(e) == e # <<>> /\ e[1] = "Anon"
FullAnon(e) == IsAnon(e) => e[3] = ToString(NFields(e[2]))

\* C4: the remaining counter of an Anonymous idiom never increases across a
\* SetField, and an emitted Anonymous expression has as many keys as its
\* virtual type has fields.
C4_AnonymousFilled ==
    [][/\ \A c \in 1..Len(expr_ctx), d \in 1..Len(expr_ctx') :
             (/\ expr_ctx[c].k = "Anonymous"
              /\ expr_ctx'[d].k = "Anonymous"
              /\ expr_ctx'[d].pos = expr_ctx[c].pos)
             => ULe(expr_ctx'[d].remaining, expr_ctx[c].remaining)
       /\ \A r \in DOMAIN reg_state' : FullAnon(reg_state'[r])
       /\ \A k \in 1..Len(log') : FullAnon(log'[k].e2)]_vars

\* the value an opcode gets for register r
Operand(r) == IF r \in DOMAIN reg_state THEN reg_state[r] ELSE Unknown("missing expr")
Missing(r) == r \notin DOMAIN reg_state
PlainSetField == Cur.op = "SetField" /\ expr_ctx = <<>>
PlainCall == Cur.op = "Call" /\ ~(expr_ctx # <<>> /\ Top(expr_ctx).k = "Constructor")

\* C7 (as amended): Mov, a plain SetField and a regular call that read a
\* register with no entry use Unknown("missing expr") for it and the pass
\* goes on to the next opcode; the register still has no entry afterwards
\* unless the opcode itself writes it: as its destination, or as the source
\* of a Mov, which is rebound to Variable(dst, name).
C7_MissingReadIsSoft ==
    [][Running =>
        /\ (Cur.op = "Mov" /\ Missing(Cur.a)) =>
              /\ status' = "run" /\ i' = i + 1
              /\ IF Cur.nm = None
                 THEN Cur.dst # Cur.a => reg_state'[Cur.dst] = Unknown("missing expr")
                 ELSE /\ Len(log') = Len(log) + 1
                      /\ log'[Len(log')].e2 = Unknown("missing expr")
              /\ reg_state'[Cur.a] = Variable(Cur.dst, Cur.nm)
              /\ DOMAIN reg_state' = DOMAIN reg_state \cup {Cur.dst, Cur.a}
        /\ (PlainSetField /\ (Missing(Cur.a) \/ Missing(Cur.lst[1]))) =>
              /\ status' = "run" /\ i' = i + 1
              /\ Len(log') = Len(log) + 1
              /\ log'[Len(log')].e1 = field(Operand(Cur.a), regtype(Cur.a), Cur.b)
              /\ log'[Len(log')].e2 = Operand(Cur.lst[1])
              /\ DOMAIN reg_state' = DOMAIN reg_state
        /\ (PlainCall /\ \E k \in 1..Len(Cur.lst) : Missing(Cur.lst[k])) =>
              /\ status' = "run" /\ i' = i + 1
              /\ LET args == [k \in 1..Len(Cur.lst) |-> Operand(Cur.lst[k])]
                     e == IF FunIsMethod(Cur.a)
                          THEN call(Field(args[1], FunName(Cur.a)), Tail(args))
                          ELSE call_fun(Cur.a, args)
                 IN IF FunRetVoid(Cur.a)
                    THEN /\ log'[Len(log')].e1 = e
                         /\ DOMAIN reg_state' = DOMAIN reg_state
                    ELSE /\ Cur.nm = None => reg_state'[Cur.dst] = e
                         /\ DOMAIN reg_state' = DOMAIN reg_state \cup {Cur.dst}]_vars

C7_Witness ==
    /\ status = "run"
    /\ lastop >= 0
    /\ OpAt(lastop).op = "SetField"
    /\ expr_ctx = <<>>
    /\ 4 \notin DOMAIN reg_state
    /\ log # <<>>
    /\ log[Len(log)].at = lastop
    /\ log[Len(log)].e1 = field(Unknown("missing expr"), "virt2", OpAt(lastop).b)

\* C7 (as claimed): an opcode that reads a register with no entry goes on to
\* the next opcode and leaves that register without an entry.
C7_MissingReadLeavesRegister ==
    [][Running =>
        /\ (Cur.op = "Mov" /\ Missing(Cur.a)) =>
              (status' = "run" /\ Cur.a \notin DOMAIN reg_state')
        /\ (PlainSetField /\ (Missing(Cur.a) \/ Missing(Cur.lst[1]))) =>
              (status' = "run" /\ DOMAIN reg_state' = DOMAIN reg_state)]_vars

-----------------------------------------------------------------------------
(* Properties of the jump arms (checked under SpecCF) *)

\* the opcode indices of the open loops, and the While statements emitted so
\* far for the Label at index t
OpenLoops(s) == {s[k].at : k \in {x \in 1..Len(s) : s[x].ty = "Loop"}}
Whiles(l, t) == {k \in 1..Len(l) : l[k].k = "While" /\ l[k].at = t}

\* C11 (as amended): a backward JAlways processed while a loop is open acts
\* on the innermost open loop, opened by the Label at L.  If a later JAlways
\* targets L it emits exactly one Continue and closes no loop.  Otherwise,
\* if that loop is the innermost scope, it closes the loop and emits exactly
\* one While into the enclosing scope; if another scope is open inside the
\* loop, the pass aborts and emits nothing.  A Label never yields more than
\* one While.
C11_BackEdgesOfInnermostLoop ==
    [][(Running /\ Cur.op = "JAlways" /\ Cur.off < 0 /\ OpenLoops(scopes) # {}) =>
        LET k == LoopIdxFrom(scopes, Len(scopes))
            L == scopes[k].start
        IN /\ IF \E j \in (i + 1)..(Len(ops) - 1) :
                    OpAt(j).op = "JAlways" /\ j + OpAt(j).off + 1 = L
              THEN /\ status' = "run"
                   /\ log' = Append(log, [Continue EXCEPT !.at = i])
                   /\ OpenLoops(scopes') = OpenLoops(scopes)
                   /\ Top(mid') = AddStmt(Top(scopes), [Continue EXCEPT !.at = i])
              ELSE IF k = Len(scopes)
                   THEN /\ status' = "run"
                        /\ log' = Append(log, CloseScope(scopes[k]))
                        /\ log'[Len(log')].k = "While" /\ log'[Len(log')].at = L
                        /\ OpenLoops(scopes') = OpenLoops(scopes) \ {L}
                        /\ mid' = [SubSeq(scopes, 1, k - 1) EXCEPT
                                     ![k - 1] = AddStmt(@, CloseScope(scopes[k]))]
                   ELSE /\ status' = "abort"
                        /\ reason' = "Last scope is not a loop !"
                        /\ log' = log
           /\ \A t \in 0..(Len(ops) - 1) : Cardinality(Whiles(log', t)) <= 1]_vars

\* two back-edges to the Label at 0: a Continue, then the While
C11_Witness ==
    /\ status = "run"
    /\ Len(ops) >= 3 /\ ops[1] = Label
    /\ lastop >= 2 /\ IsBackEdge(OpAt(lastop)) /\ lastop + OpAt(lastop).off + 1 = 0
    /\ Len(log) >= 2
    /\ log[Len(log)].k = "While" /\ log[Len(log)].at = 0
    /\ \E c \in 1..(Len(log) - 1) :
          /\ log[c].k = "Continue"
          /\ IsBackEdge(OpAt(log[c].at)) /\ log[c].at + OpAt(log[c].at).off + 1 = 0
    /\ 0 \notin OpenLoops(scopes)

\* C11 (as claimed): of the backward JAlways opcodes that target an open
\* loop's Label, every one but the last emits one Continue and closes no loop,
\* and the last one closes that loop and emits its While.
C11_BackEdgesOfLabel ==
    [][(Running /\ Cur.op = "JAlways" /\ Cur.off < 0
          /\ (i + Cur.off + 1) \in OpenLoops(scopes)) =>
        LET t == i + Cur.off + 1 IN
        IF \E j \in (i + 1)..(Len(ops) - 1) :
              OpAt(j).op = "JAlways" /\ OpAt(j).off < 0 /\ j + OpAt(j).off + 1 = t
        THEN /\ status' = "run"
             /\ log' = Append(log, [Continue EXCEPT !.at = i])
             /\ OpenLoops(scopes') = OpenLoops(scopes)
        ELSE /\ status' = "run"
             /\ OpenLoops(scopes') = OpenLoops(scopes) \ {t}
             /\ Len(log') = Len(log) + 1
             /\ log'[Len(log')].k = "While" /\ log'[Len(log')].at = t]_vars

-----------------------------------------------------------------------------
(* Properties of the assignment policy (checked under SpecD) *)

\* the opcode at i hands a value to push_expr! for its own destination
Produces ==
    \/ Cur.op \in {"Int", "Bool", "Null", "Mov"}
    \/ Cur.op = "Call" /\ ~FunRetVoid(Cur.a) /\ expr_ctx = <<>>
    \/ Cur.op = "New" /\ regtype(Cur.dst) \notin {"obj", "virt2", "virt0"}

\* the value it hands over, from the state before the opcode
Produced ==
    CASE Cur.op = "Int" -> <<"Int", ToString(Cur.a)>>
      [] Cur.op = "Bool" -> <<"Bool", IF Cur.a = 1 THEN "true" ELSE "false">>
      [] Cur.op = "Null" -> <<"Null">>
      [] Cur.op = "Mov" -> Operand(Cur.a)
      [] Cur.op = "Call" ->
            call_fun(Cur.a, [k \in 1..Len(Cur.lst) |-> Operand(Cur.lst[k])])
      [] OTHER -> Constructor(regtype(Cur.dst), <<>>)

\* the named half of the policy, and the registers an opcode may touch
NamedAssign ==
    /\ reg_state'[Cur.dst] = Variable(Cur.dst, Cur.nm)
    /\ log' = Append(log, [Assign(Cur.nm \notin seen, Variable(Cur.dst, Cur.nm), Produced)
                              EXCEPT !.at = i])
    /\ seen' = seen \cup {Cur.nm}
OthersKept ==
    \A r \in (DOMAIN reg_state \cup DOMAIN reg_state') \ {Cur.dst, Cur.a} :
        r \in DOMAIN reg_state /\ r \in DOMAIN reg_state' /\ reg_state'[r] = reg_state[r]

\* C12 (as amended): an opcode at index i that produces the value e for its
\* destination dst: with no name at i, the register state maps dst to e and
\* no statement is emitted -- except for a Mov of dst onto itself, which
\* leaves dst bound to Variable(dst, None); with a name, the register state
\* maps dst to Variable(dst,name) and exactly one Assign of e to that variable
\* is emitted, a declaration iff name was not seen before, and name is seen
\* afterwards.
C12_DualAssignment ==
    [][(Running /\ Produces) =>
        /\ status' = "run"
        /\ IF Cur.nm = None
           THEN /\ reg_state'[Cur.dst] =
                      (IF Cur.op = "Mov" /\ Cur.a = Cur.dst
                       THEN Variable(Cur.dst, None) ELSE Produced)
                /\ log' = log
                /\ seen' = seen
           ELSE NamedAssign
        /\ Cur.op # "Mov" => \A r \in DOMAIN reg_state \ {Cur.dst} :
                                 r \in DOMAIN reg_state' /\ reg_state'[r] = reg_state[r]
        /\ OthersKept]_vars

\* a named destination whose name was seen already: a plain reassignment
C12_Witness ==
    /\ status = "run"
    /\ lastop >= 1
    /\ OpAt(lastop).op \in {"Int", "Call", "Mov"}
    /\ OpAt(lastop).nm # None
    /\ log # <<>>
    /\ log[Len(log)].at = lastop
    /\ log[Len(log)].k = "Assign" /\ ~log[Len(log)].decl
    /\ log[Len(log)].e1 = Variable(OpAt(lastop).dst, OpAt(lastop).nm)
    /\ reg_state[OpAt(lastop).dst] = log[Len(log)].e1
    /\ \E r \in DOMAIN reg_state : reg_state[r][1] \in {"Int", "Call"}

\* C12 (as claimed): with no name at i the register state maps dst to e and
\* no statement is emitted, for every value-producing opcode.
C12_DualAssignmentAlways ==
    [][(Running /\ Produces) =>
        /\ status' = "run"
        /\ IF Cur.nm = None
           THEN /\ reg_state'[Cur.dst] = Produced
                /\ log' = log
                /\ seen' = seen
           ELSE NamedAssign]_vars

-----------------------------------------------------------------------------
(* Properties of Ret (checked under SpecR) *)

\* C13: a Ret on a non-void register always emits Return(Some(expr(ret))); a
\* Ret on a void register emits Return(None) iff a scope other than the
\* function body is open when it is processed, and nothing otherwise.
C13_ReturnPolicy ==
    [][(Running /\ Cur.op = "Ret") =>
        LET some == [Return(Operand(Cur.a)) EXCEPT !.at = i]
            none == [Return(<<>>) EXCEPT !.at = i]
        IN /\ status' = "run"
           /\ IF regtype(Cur.a) # "void"
              THEN /\ log' = Append(log, some)
                   /\ mid' = [scopes EXCEPT ![Len(scopes)] = AddStmt(@, some)]
              ELSE IF Len(scopes) > 1
                   THEN /\ log' = Append(log, none)
                        /\ mid' = [scopes EXCEPT ![Len(scopes)] = AddStmt(@, none)]
                   ELSE /\ log' = log
                        /\ mid' = scopes]_vars

\* a void return at the top level (suppressed) followed by one inside a scope
C13_Witness ==
    /\ status = "run"
    /\ lastop >= 2
    /\ OpAt(lastop) = Ret(2)
    /\ OpAt(0) = Ret(2)
    /\ Len(mid) > 1
    /\ Len(log) = 1
    /\ log[1].k = "Return" /\ log[1].e1 = <<>> /\ log[1].at = lastop

-----------------------------------------------------------------------------
(* Properties of the recursion (checked under SpecSC) *)

\* C14: decompile_function terminates for every function of a module: the
\* invocations of decompile_function that are active at one time never
\* outnumber the functions of the module (the recursion started by
\* StaticClosure is bounded by the closure nesting) and the call stack never
\* overflows, however the StaticClosure opcodes reference functions.
C14_RecursionBounded ==
    /\ Len(frames) + 1 <= Cardinality(DOMAIN code)
    /\ reason # "stack overflow"

-----------------------------------------------------------------------------
(* Properties of calls and field writes among the idioms (checked under SpecI) *)

\* the expression of a regular call at i, from the state before the opcode
CallExpr ==
    LET args == [k \in 1..Len(Cur.lst) |-> Operand(Cur.lst[k])] IN
    IF FunIsMethod(Cur.a)
    THEN call(Field(args[1], FunName(Cur.a)), Tail(args))
    ELSE call_fun(Cur.a, args)

\* C15: a Call1..Call4 whose first argument is not the register of a
\* Constructor idiom on top of the idiom stack is a regular call: an ExprStmt
\* when the callee returns void, the dual assignment policy on dst otherwise,
\* and the idiom stack is left unchanged -- also while a Constructor idiom for
\* another register is pending on top.
C15_OtherCallsAreRegular ==
    [][(/\ Running /\ Cur.op = "Call"
        /\ ~(/\ expr_ctx # <<>>
             /\ Top(expr_ctx).k = "Constructor"
             /\ Top(expr_ctx).reg = Cur.lst[1])) =>
        /\ status' = "run"
        /\ expr_ctx' = expr_ctx
        /\ IF FunRetVoid(Cur.a)
           THEN log' = Append(log, [ExprStmt(CallExpr) EXCEPT !.at = i])
           ELSE IF Cur.nm = None
                THEN /\ Cur.dst \in DOMAIN reg_state'
                     /\ reg_state'[Cur.dst] = CallExpr
                     /\ log' = log
                ELSE /\ Cur.dst \in DOMAIN reg_state'
                     /\ reg_state'[Cur.dst] = Variable(Cur.dst, Cur.nm)
                     /\ log' = Append(log,
                           [Assign(Cur.nm \notin seen, Variable(Cur.dst, Cur.nm), CallExpr)
                               EXCEPT !.at = i])]_vars

\* the plain field assignment of the SetField at i
FieldAssign ==
    [Assign(FALSE, field(Operand(Cur.a), regtype(Cur.a), Cur.b), Operand(Cur.lst[1]))
        EXCEPT !.at = i]

\* C16: a SetField processed when the top of the idiom stack is not an
\* Anonymous idiom (the stack is empty or its top is a Constructor idiom)
\* emits exactly one Assign{declaration=false} on the field and leaves the
\* idiom stack exactly as it was.
C16_PlainSetFieldAssigns ==
    [][(/\ Running /\ Cur.op = "SetField"
        /\ ~(expr_ctx # <<>> /\ Top(expr_ctx).k = "Anonymous")) =>
        /\ status' = "run"
        /\ expr_ctx' = expr_ctx
        /\ log' = Append(log, FieldAssign)]_vars

\* C17: only a SetField whose obj is the register allocated by the pending
\* New(Virtual) populates the Anonymous idiom on top of the stack; a SetField
\* on another object register leaves the idiom's fields and remaining
\* unchanged and is emitted as a plain field Assign.
C17_OnlyOwnSetFieldPopulates ==
    [][(/\ Running /\ Cur.op = "SetField"
        /\ expr_ctx # <<>> /\ Top(expr_ctx).k = "Anonymous"
        /\ Cur.a # OpAt(Top(expr_ctx).pos).dst) =>
        /\ status' = "run"
        /\ expr_ctx' = expr_ctx
        /\ log' = Append(log, FieldAssign)]_vars

-----------------------------------------------------------------------------
(* Properties of forward jumps (checked under SpecCF) *)

\* C18: a forward conditional jump at i with offset O > 0 and condition C
\* does exactly one of two things: when ops[i+O] is a JAlways with a negative
\* offset and the innermost enclosing loop's condition is still Unknown, it
\* sets that condition to C and opens no scope; in every other case it
\* opens exactly one if scope with condition C and changes no loop condition.
C18_JumpIsExitOrIf ==
    [][(Running /\ Cur.op \in CondJumps /\ Cur.off > 0) =>
        LET C == JumpCond([reg_state |-> reg_state], Cur)
            k == LoopIdxFrom(scopes, Len(scopes))
            exit == /\ i + Cur.off < Len(ops)
                    /\ OpAt(i + Cur.off).op = "JAlways" /\ OpAt(i + Cur.off).off < 0
                    /\ k # 0
                    /\ scopes[k].cond[1] = "Unknown"
        IN /\ status' = "run"
           /\ log' = log
           /\ IF exit
              THEN mid' = [scopes EXCEPT ![k].cond = C]
              ELSE mid' = Append(scopes, Scope("If", i, i + Cur.off + 1, -1, C, <<>>))]_vars

\* the forward JAlways at i lands on an opcode that is not a loop back-edge
LandsOffBackEdge ==
    /\ i + Cur.off < Len(ops)
    /\ ~(OpAt(i + Cur.off).op = "JAlways" /\ OpAt(i + Cur.off).off < 0)

\* C19: a forward JAlways at i whose innermost open scope is an if and for
\* which ops[i+offset] is not a backward JAlways opens an else scope ending
\* at offset+1, whether or not a loop scope encloses the if.
C19_ElseAfterIf ==
    [][(/\ Running /\ Cur.op = "JAlways" /\ Cur.off >= 0
        /\ Top(scopes).ty = "If"
        /\ LandsOffBackEdge) =>
        /\ status' = "run"
        /\ log' = log
        /\ mid' = Append(scopes, Scope("Else", i, i + Cur.off + 1, -1, <<>>, <<>>))]_vars

\* C20: a forward JAlways at i emits Break iff the innermost scope is not a
\* switch, some loop is open and ops[i+offset] is a JAlways with a negative
\* offset; a Break opens no scope and closes no loop, and a loop leaves the
\* scope stack only at a backward JAlways after which no jump to its Label
\* remains (its last back-edge).
C20_BreakPolicy ==
    [][/\ (Running /\ Cur.op = "JAlways" /\ Cur.off >= 0) =>
            LET brk == [Break EXCEPT !.at = i]
                breaks == /\ Top(scopes).ty # "Switch"
                          /\ OpenLoops(scopes) # {}
                          /\ i + Cur.off < Len(ops)
                          /\ OpAt(i + Cur.off).op = "JAlways"
                          /\ OpAt(i + Cur.off).off < 0
            IN IF breaks
               THEN /\ status' = "run"
                    /\ log' = Append(log, brk)
                    /\ mid' = [scopes EXCEPT ![Len(scopes)] = AddStmt(@, brk)]
                    /\ OpenLoops(scopes') = OpenLoops(scopes)
                    /\ Len(scopes') <= Len(scopes)
               ELSE log' = log
       /\ \A t \in OpenLoops(scopes) \ OpenLoops(scopes') :
             /\ Running /\ Cur.op = "JAlways" /\ Cur.off < 0
             /\ \A j \in (i + 1)..(Len(ops) - 1) :
                   ~(OpAt(j).op = "JAlways" /\ j + OpAt(j).off + 1 = t)]_vars

\* a Break inside a loop that a later back-edge has closed: While [Break]
C20_Witness ==
    /\ status = "run"
    /\ OpenLoops(scopes) = {}
    /\ Len(log) = 2
    /\ log[1].k = "Break" /\ OpAt(log[1].at).op = "JAlways" /\ OpAt(log[1].at).off > 0
    /\ log[2].k = "While" /\ log[2].at < log[1].at
    /\ Erase(log[2].body) = <<Break>>
    /\ IsBackEdge(OpAt(lastop))

-----------------------------------------------------------------------------
(* Properties of Mov (checked under SpecD) *)

\* what Mov does to its destination, given the value v the claim expects the
\* register state to hold for an unnamed destination
MovEffect(v) ==
    /\ status' = "run"
    /\ DOMAIN reg_state' = DOMAIN reg_state \cup {Cur.dst, Cur.a}
    /\ reg_state'[Cur.a] = Variable(Cur.dst, Cur.nm)
    /\ IF Cur.nm = None
       THEN /\ reg_state'[Cur.dst] = v
            /\ log' = log
       ELSE /\ reg_state'[Cur.dst] = Variable(Cur.dst, Cur.nm)
            /\ log' = Append(log,
                  [Assign(Cur.nm \notin seen, Variable(Cur.dst, Cur.nm), Operand(Cur.a))
                      EXCEPT !.at = i])
    /\ OthersKept

\* C21 (as amended): after Mov{dst,src} at index i the register state maps
\* src to Variable(dst, name of dst at i); it maps dst to the pre-Mov
\* expr(src) when dst is unnamed at i and differs from src, to
\* Variable(dst, None) when dst is unnamed and is src itself, and to
\* Variable(dst,name) with one Assign of the pre-Mov expr(src) emitted when
\* dst is named; every register other than dst and src is unchanged.
C21_MovRebindsSource ==
    [][(Running /\ Cur.op = "Mov") =>
        MovEffect(IF Cur.a = Cur.dst THEN Variable(Cur.dst, None) ELSE Operand(Cur.a))]_vars

\* an unnamed Mov of a bound register: dst holds the value, src the variable
C21_Witness ==
    /\ status = "run"
    /\ lastop >= 1
    /\ OpAt(lastop) = Mov(7, 6, None)
    /\ reg_state[7][1] \in {"Int", "Call"}
    /\ reg_state[6] = Variable(7, None)
    /\ \A k \in 1..Len(log) : log[k].at # lastop

\* C21 (as claimed): dst is mapped to the pre-Mov expr(src) whenever dst is
\* unnamed at i.
C21_MovKeepsValue ==
    [][(Running /\ Cur.op = "Mov") => MovEffect(Operand(Cur.a))]_vars

-----------------------------------------------------------------------------
(* Properties of the recorded conditions (checked under SpecJ) *)

\* an integer of IntBits bits read as unsigned
Unsigned(n) == n % (2 ^ IntBits)

\* whether the virtual machine takes the jump o on the values at hand
Taken(o) ==
    LET a == vals["a"]
        b == IF "b" \in DOMAIN vals THEN vals["b"] ELSE NullVal
    IN CASE o.op = "JTrue" -> a = BoolVal(TRUE)
         [] o.op = "JFalse" -> a = BoolVal(FALSE)
         [] o.op = "JNull" -> a = NullVal
         [] o.op = "JNotNull" -> a # NullVal
         [] o.op = "JSGte" -> a[2] >= b[2]
         [] o.op = "JSGt" -> a[2] > b[2]
         [] o.op = "JSLte" -> a[2] <= b[2]
         [] o.op = "JSLt" -> a[2] < b[2]
         [] o.op = "JUGte" -> Unsigned(a[2]) >= Unsigned(b[2])
         [] o.op = "JULt" -> Unsigned(a[2]) < Unsigned(b[2])
         [] o.op = "JEq" -> a = b
         [] OTHER -> a # b

\* the value of a condition (an expression in prefix form) on the values at
\* hand, and the tokens that follow it; the comparisons of the AST are those
\* of the source language on Int
RECURSIVE EvalAt(_)
EvalAt(ts) ==
    LET h == Head(ts) IN
    CASE h = "Var" -> [v |-> vals[ts[3]], rest |-> SubSeq(ts, 4, Len(ts))]
      [] h = "Null" -> [v |-> NullVal, rest |-> Tail(ts)]
      [] h = "not" ->
            LET x == EvalAt(Tail(ts)) IN
            [v |-> BoolVal(x.v = BoolVal(FALSE)), rest |-> x.rest]
      [] OTHER ->
            LET x == EvalAt(Tail(ts))
                y == EvalAt(x.rest)
            IN [v |-> BoolVal(CASE h = "eq" -> x.v = y.v
                                [] h = "noteq" -> x.v # y.v
                                [] h = "gt" -> x.v[2] > y.v[2]
                                [] h = "gte" -> x.v[2] >= y.v[2]
                                [] h = "lt" -> x.v[2] < y.v[2]
                                [] OTHER -> x.v[2] <= y.v[2]),
                rest |-> y.rest]
Holds(cond) == EvalAt(cond).v = BoolVal(TRUE)

\* C22: for each conditional jump and all operand values, the condition
\* recorded for the if or for the loop is true exactly when the jump is not
\* taken.
C22_ConditionNegatesJump ==
    (status = "run" /\ lastop >= 0 /\ OpAt(lastop).op \in CondJumps) =>
        /\ Len(mid) = 2
        /\ Top(mid).ty = (IF lastop = 0 THEN "If" ELSE "Loop")
        /\ Holds(Top(mid).cond) <=> ~Taken(OpAt(lastop))

-----------------------------------------------------------------------------
(* Properties of the opcodes without an arm (checked under SpecO) *)

\* a scope that the cursor reaching c closes
EndsAt(sc, c) == sc.ty \in {"If", "Else", "Switch", "Try"} /\ sc.end = c
AllLeaves(s) == Leaves(Concat([k \in 1..Len(s) |-> s[k].stmts \o Concat(s[k].cases)]))

\* C23: an opcode the decompiler has no arm for (EnumIndex, EndTrap) leaves
\* the register state, the seen names, the idiom stack and every scope's
\* statements unchanged; its only effect is the cursor advance that follows
\* every opcode, with the scope closes the advance triggers: the scopes
\* ending at the new cursor leave the stack, each emitted as one statement,
\* and no other statement appears or disappears.
C23_UnhandledOpcodeIsNoOp ==
    [][(Running /\ Cur.op \in {"EndTrap", "EnumIndex"}) =>
        /\ status' = "run"
        /\ reg_state' = reg_state
        /\ seen' = seen
        /\ expr_ctx' = expr_ctx
        /\ log' = log
        /\ mid' = scopes
        /\ i' = i + 1
        /\ cursor' = cursor + 1
        /\ [k \in 1..Len(scopes') |-> scopes'[k].at] =
              LET kept == SelectSeq(scopes, LAMBDA sc : ~EndsAt(sc, cursor + 1))
              IN [k \in 1..Len(kept) |-> kept[k].at]
        /\ \A k \in 1..Len(scopes) :
              IF EndsAt(scopes[k], cursor + 1)
              THEN Cardinality({n \in 1..Len(ScopeStmts(scopes')) :
                                   /\ ScopeStmts(scopes')[n].at = scopes[k].at
                                   /\ ScopeStmts(scopes')[n].k \in Compound}) = 1
              ELSE \E n \in 1..Len(scopes') :
                      /\ scopes'[n].at = scopes[k].at
                      /\ scopes'[n].cond = scopes[k].cond
                      /\ scopes'[n].end = scopes[k].end
        /\ AllLeaves(scopes') = AllLeaves(scopes)
        /\ Len(ScopeStmts(scopes')) =
              Len(ScopeStmts(scopes))
                 + Len(SelectSeq(scopes, LAMBDA sc : EndsAt(sc, cursor + 1)))]_vars

\* an EnumIndex with a named destination, amid a bound register, a declared
\* name, a pending idiom and an if scope that ends right after it
C23_Witness ==
    /\ status = "run"
    /\ lastop >= 1
    /\ OpAt(lastop).op = "EnumIndex"
    /\ expr_ctx # <<>>
    /\ reg_state # <<>>
    /\ seen = {"x"}
    /\ Len(scopes) < Len(mid)
    /\ Top(mid).ty = "If"
    /\ 6 \notin DOMAIN reg_state

-----------------------------------------------------------------------------
(* Properties of the remaining counter (checked under SpecI) *)

\* C24: the remaining counter of an Anonymous idiom is at least 1 whenever a
\* SetField decrements it, so the subtraction never goes below zero (it
\* neither wraps nor aborts the pass), also for a virtual type with zero
\* fields, whose New pushes the idiom with remaining = 0.
C24_RemainingPositiveAtDecrement ==
    [][(/\ Running /\ Cur.op = "SetField"
        /\ expr_ctx # <<>> /\ Top(expr_ctx).k = "Anonymous") =>
        /\ Top(expr_ctx).remaining >= 1
        /\ status' = "run"
        /\ \A c \in 1..Len(expr_ctx') : expr_ctx'[c].remaining >= 0]_vars

-----------------------------------------------------------------------------
(* Properties of the loop condition (checked under SpecCF) *)

\* C25: a loop's condition is back-patched at most once: once an exit test
\* has set the condition of a loop (it is no longer the placeholder the Label
\* gave it), no later opcode changes it while the loop is open, whatever
\* expression the first test supplied.
C25_LoopCondSetOnce ==
    [][\A k \in 1..Len(scopes), n \in 1..Len(scopes') :
          (/\ scopes[k].ty = "Loop"
           /\ scopes[k].cond # Unknown("no cond")
           /\ scopes'[n].ty = "Loop"
           /\ scopes'[n].at = scopes[k].at)
          => scopes'[n].cond = scopes[k].cond]_vars

-----------------------------------------------------------------------------
(* Properties of loop closing (checked under SpecCF) *)

\* C26: a loop scope is closed, and a Continue is emitted, only by a backward
\* JAlways whose own target index (i + offset + 1) is the start of the
\* innermost open loop; a backward JAlways that targets any other index never
\* closes a loop.
C26_CloseOnlyByJumpToLoopStart ==
    [][(\/ OpenLoops(scopes) \ OpenLoops(scopes') # {}
        \/ /\ Len(log') > Len(log)
           /\ log'[Len(log')].k \in {"Continue", "While"})
       => /\ Running
          /\ Cur.op = "JAlways" /\ Cur.off < 0
          /\ OpenLoops(scopes) # {}
          /\ i + Cur.off + 1 = last_loop_start(scopes)]_vars

====
